---- MODULE Spec2Model ----
(***************************************************************************)
(* Model of the two command-line tools of the repository:                  *)
(*   src/validate/a2a_client.py        (SimpleA2AClient, interactive)       *)
(*   src/validate/validate_a2a_card.py (agent card validator)              *)
(*                                                                         *)
(* Four state machines share this module:                                  *)
(*   Spec          the interactive session: run_interactive, send_message, *)
(*                 poll_for_updates, end_conversation                      *)
(*   SpecPoll      poll_for_updates called on its own, with any max_polls  *)
(*   SpecConnect   SimpleA2AClient.connect                                 *)
(*   SpecValidator validate_a2a_card.py main                               *)
(* The SDK and the server are the environment: their answers are chosen    *)
(* with \E from small sets.                                                *)
(***************************************************************************)
EXTENDS Integers, Sequences, FiniteSets, TLC

VARIABLES
    pc,                 \* position of the client coroutine
    caller,             \* who called poll_for_updates
    current_task,       \* self.current_task
    message,            \* the Message built by the last send_message
    response_count,     \* send_message local
    message_count,      \* send_message local
    max_polls,          \* poll_for_updates parameter
    poll_count,         \* poll_for_updates local
    messages_received,  \* poll_for_updates local (list of message ids)
    last_agent_message, \* poll_for_updates local
    task,               \* the task fetched by the poll in progress
    hist_n,             \* history items of `task` iterated so far
    \* observations of the run (what was sent / printed / received)
    queries,            \* get_task calls issued in this round
    poll_outcome,       \* what the most recent poll did
    max_report,         \* whether the round printed 'Reached max polls'
    got_task_update,    \* the stream of this send delivered a task update
    recv,               \* id of the task most recently received since /new, /end
    \* SimpleA2AClient.connect
    cpc,                \* position of connect
    agent_url,          \* self.agent_url
    card_urls,          \* connect local
    requested,          \* candidate URLs requested so far, in order
    answers,            \* what each request was answered with
    agent_card_data,    \* connect local
    client,             \* self.client
    connected,          \* what connect returned
    \* validate_a2a_card.py
    vpc,                \* position of the validator
    argv,               \* sys.argv
    http_requests,      \* requests.get calls made
    status_code,        \* response.status_code, 0 before a response
    card,               \* agent_card_data of the validator
    step_failed,        \* the step that failed, if any
    exit_status         \* exit status of the process

clientVars == <<pc, caller, current_task, message, response_count, message_count,
                max_polls, poll_count, messages_received, last_agent_message,
                task, hist_n, queries, poll_outcome, max_report,
                got_task_update, recv>>

connectVars == <<cpc, agent_url, card_urls, requested, answers, agent_card_data,
                 client, connected>>

validatorVars == <<vpc, argv, http_requests, status_code, card, step_failed,
                   exit_status>>

vars == <<clientVars, connectVars, validatorVars>>

----------------------------------------------------------------------------
(* Bounds of the model *)
MaxHistory == 2      \* items of task.history a poll iterates over
MaxResponses == 2    \* responses one send_message stream delivers
MaxPollsArg == 3     \* largest max_polls tried when poll_for_updates runs alone

TaskIds == {"t1", "t2"}
MsgIds == {"m1", "m2"}
Texts == {"a", "b"}

(* a2a.types.TaskState *)
TaskState == {"submitted", "working", "input_required", "completed", "canceled",
              "failed", "rejected", "auth_required", "unknown"}
(* a2a.types.Role *)
Role == {"agent", "user"}

NoId == "none"
NoTask == [id |-> NoId, state |-> "none"]
Tasks == [id : TaskIds, state : TaskState]
NoCard == [schema_valid |-> FALSE, ext_descriptions |-> <<"unfetched">>]
NoMsg == [message_id |-> NoId, role |-> "none", text |-> "none"]
Messages == [message_id : MsgIds, role : Role, text : Texts]

DefaultMaxPolls == 10

Range(s) == {s[i] : i \in 1..Len(s)}

----------------------------------------------------------------------------
(* Strings are sequences of characters; the str methods the code uses *)

(* s[i:i+len(p)] == p *)
MatchAt(s, p, i) ==
    /\ i + Len(p) - 1 <= Len(s)
    /\ \A k \in 1..Len(p) : s[i + k - 1] = p[k]

(* str.startswith *)
StartsWith(s, p) == MatchAt(s, p, 1)

(* p in s *)
Contains(s, p) == \E i \in 1..(Len(s) + 1) : MatchAt(s, p, i)

(* str.replace: every non-overlapping occurrence, left to right *)
RECURSIVE ReplaceFrom(_, _, _, _)
ReplaceFrom(s, old, new, i) ==
    IF i > Len(s) THEN <<>>
    ELSE IF MatchAt(s, old, i) THEN new \o ReplaceFrom(s, old, new, i + Len(old))
    ELSE <<s[i]>> \o ReplaceFrom(s, old, new, i + 1)

Replace(s, old, new) == ReplaceFrom(s, old, new, 1)

(* string literals of the two programs *)
S_a2a == <<"/","a","2","a">>
S_wellKnown == <<"/",".","w","e","l","l","-","k","n","o","w","n","/","a","g","e","n","t","-","c","a","r","d",".","j","s","o","n">>
S_localhost3003 == <<"l","o","c","a","l","h","o","s","t",":","3","0","0","3">>
S_apiRooms == <<"/","a","p","i","/","r","o","o","m","s","/">>
S_rooms == <<"/","r","o","o","m","s","/">>
S_agentCard == <<"/","a","g","e","n","t","-","c","a","r","d",".","j","s","o","n">>
S_http == <<"h","t","t","p",":","/","/">>
S_https == <<"h","t","t","p","s",":","/","/">>

(* agent URLs given to the client *)
U_localRoom == <<"h","t","t","p",":","/","/","l","o","c","a","l","h","o","s","t",":","3","0","0","3","/","a","p","i","/","r","o","o","m","s","/","r","/","a","2","a">>
U_bridge == <<"h","t","t","p","s",":","/","/","h","/","a","p","i","/","b","r","i","d","g","e","/","x","/","a","2","a">>
U_plain == <<"h","t","t","p",":","/","/","h">>
U_localPlain == <<"h","t","t","p",":","/","/","l","o","c","a","l","h","o","s","t",":","3","0","0","3">>
U_twice == <<"h","t","t","p",":","/","/","h","/","a","2","a","/","a","2","a">>
AgentUrls == {U_localRoom, U_bridge, U_plain, U_localPlain, U_twice}

(* command-line arguments given to the validator *)
A_prog == <<"v",".","p","y">>
A_http == <<"h","t","t","p",":","/","/","h","/","c">>
A_https == <<"h","t","t","p","s",":","/","/","h","/","c">>
A_httpLocal == <<"h","t","t","p",":","/","/","l","/","c">>
A_ftp == <<"f","t","p",":","/","/","h","/","c">>
A_upper == <<"H","T","T","P",":","/","/","h","/","c">>
A_noSlash == <<"h","t","t","p",":","/","h","/","c">>
A_empty == <<>>
UrlArgs == {A_http, A_https, A_httpLocal, A_ftp, A_upper, A_noSlash, A_empty}

----------------------------------------------------------------------------
(* poll_for_updates: the pieces of its code *)

(* mutant: the loop test is off by one *)
LoopGuard_OffByOne(count, limit) == count <= limit

(* line 123: while poll_count < max_polls *)
LoopGuard(count, limit) == count < limit

(* lines 148-156: task.status.message, msg = NoMsg when the status has none *)
ProcessStatusMessage(received, lam, msg) ==
    IF msg # NoMsg /\ msg.message_id \notin Range(received)
    THEN [received |-> Append(received, msg.message_id),
          lam |-> IF msg.role = "agent" THEN msg ELSE lam]
    ELSE [received |-> received, lam |-> lam]

(* mutant: history items are taken without the membership check *)
ProcessHistoryItem_NoCheck(received, lam, item) ==
    [received |-> Append(received, item.message_id),
     lam |-> IF item.role = "agent" THEN item ELSE lam]

(* lines 161-164: one item of task.history *)
ProcessHistoryItem(received, lam, item) ==
    IF item.message_id \notin Range(received)
    THEN [received |-> Append(received, item.message_id),
          lam |-> IF item.role = "agent" THEN item ELSE lam]
    ELSE [received |-> received, lam |-> lam]

(* mutant: canceled is not among the terminal states *)
ShouldStop_NoCanceled(state) ==
    \/ state = "input_required"
    \/ state \in {"completed", "failed"}

(* lines 169 and 186: the states on which the loop breaks *)
ShouldStop(state) ==
    \/ state = "input_required"
    \/ state \in {"completed", "failed", "canceled"}

(* mutant: the except clause is outside the while loop *)
AfterPollError_LeavesLoop == "poll_exit"

(* lines 201-202: the except clause is inside the while loop *)
AfterPollError == "poll_head"

(* line 204: if poll_count >= max_polls *)
ReportsMax(count, limit) == count >= limit

(* where poll_for_updates returns to *)
PollReturn == IF caller = "send_message" THEN "prompt" ELSE "returned"

sendLocals == <<message, response_count, message_count, got_task_update>>

(* lines 113-121: entry of poll_for_updates *)
PollEnter ==
    /\ pc = "call_poll"
    /\ IF current_task = NoTask
       THEN /\ pc' = PollReturn
            /\ UNCHANGED <<poll_count, messages_received, last_agent_message,
                           queries, poll_outcome, max_report>>
       ELSE /\ pc' = "poll_head"
            /\ poll_count' = 0
            /\ messages_received' = <<>>
            /\ last_agent_message' = NoMsg
            /\ queries' = 0
            /\ poll_outcome' = "none"
            /\ max_report' = "none"
    /\ UNCHANGED <<caller, current_task, max_polls, task, hist_n, recv>>
    /\ UNCHANGED sendLocals
    /\ UNCHANGED <<connectVars, validatorVars>>

(* lines 123-137, 201-202: a poll whose try block raises *)
PollError ==
    /\ pc = "poll_head"
    /\ LoopGuard(poll_count, max_polls)
    /\ poll_count' = poll_count + 1
    /\ queries' = queries + 1
    /\ poll_outcome' = "error"
    /\ pc' = AfterPollError
    /\ UNCHANGED <<caller, current_task, max_polls, messages_received,
                   last_agent_message, task, hist_n, max_report, recv>>
    /\ UNCHANGED sendLocals
    /\ UNCHANGED <<connectVars, validatorVars>>

(* lines 123-156: a poll whose get_task answers with task t, whose
   status carries message m (or none) *)
PollFetch ==
    /\ pc = "poll_head"
    /\ LoopGuard(poll_count, max_polls)
    /\ \E t \in Tasks, m \in Messages \cup {NoMsg} :
         LET r == ProcessStatusMessage(messages_received, last_agent_message, m)
         IN /\ task' = t
            /\ messages_received' = r.received
            /\ last_agent_message' = r.lam
    /\ poll_count' = poll_count + 1
    /\ queries' = queries + 1
    /\ poll_outcome' = "fetched"
    /\ hist_n' = 0
    /\ pc' = "history"
    /\ UNCHANGED <<caller, current_task, max_polls, max_report, recv>>
    /\ UNCHANGED sendLocals
    /\ UNCHANGED <<connectVars, validatorVars>>

(* lines 159-164: the next item of task.history; the history of the fetched
   task is supplied item by item as the for loop reads it *)
HistoryItem ==
    /\ pc = "history"
    /\ hist_n < MaxHistory
    /\ \E item \in Messages :
         LET r == ProcessHistoryItem(messages_received, last_agent_message, item)
         IN /\ messages_received' = r.received
            /\ last_agent_message' = r.lam
    /\ hist_n' = hist_n + 1
    /\ UNCHANGED <<pc, caller, current_task, max_polls, poll_count, task,
                   queries, poll_outcome, max_report, recv>>
    /\ UNCHANGED sendLocals
    /\ UNCHANGED <<connectVars, validatorVars>>

(* lines 166-199: the history is exhausted; stop check *)
StopCheck ==
    /\ pc = "history"
    /\ IF ShouldStop(task.state)
       THEN /\ current_task' = task
            /\ poll_outcome' = "stopped"
            /\ pc' = "poll_exit"
       ELSE /\ pc' = "poll_head"
            /\ UNCHANGED <<current_task, poll_outcome>>
    \* observation: a task is received from a poll that ends on a stop state
    /\ recv' = IF task.state \in {"input_required", "completed", "failed", "canceled"}
               THEN task.id ELSE recv
    /\ task' = NoTask
    /\ hist_n' = 0
    /\ UNCHANGED <<caller, max_polls, poll_count, messages_received,
                   last_agent_message, queries, max_report>>
    /\ UNCHANGED sendLocals
    /\ UNCHANGED <<connectVars, validatorVars>>

(* lines 204-205: after the loop, by break or by the loop condition *)
AfterLoop ==
    /\ \/ pc = "poll_exit"
       \/ pc = "poll_head" /\ ~LoopGuard(poll_count, max_polls)
    /\ max_report' = IF ReportsMax(poll_count, max_polls) THEN "printed" ELSE "silent"
    /\ pc' = PollReturn
    /\ UNCHANGED <<caller, current_task, max_polls, poll_count, messages_received,
                   last_agent_message, task, hist_n, queries, poll_outcome, recv>>
    /\ UNCHANGED sendLocals
    /\ UNCHANGED <<connectVars, validatorVars>>

PollStep == PollEnter \/ PollError \/ PollFetch \/ HistoryItem \/ StopCheck \/ AfterLoop

(* poll_for_updates called on its own *)
InitPoll ==
    /\ pc = "call_poll"
    /\ caller = "harness"
    /\ current_task \in Tasks \cup {NoTask}
    /\ max_polls \in (0..MaxPollsArg) \cup {DefaultMaxPolls}
    /\ message = [task_id |-> NoId]
    /\ response_count = 0
    /\ message_count = 0
    /\ got_task_update = FALSE
    /\ poll_count = 0
    /\ messages_received = <<>>
    /\ last_agent_message = NoMsg
    /\ task = NoTask
    /\ hist_n = 0
    /\ queries = 0
    /\ poll_outcome = "none"
    /\ max_report = "none"
    /\ recv = current_task.id
    /\ cpc = "idle"
    /\ agent_url = <<>>
    /\ card_urls = <<>>
    /\ requested = <<>>
    /\ answers = <<>>
    /\ agent_card_data = "none"
    /\ client = "created"
    /\ connected = "yes"
    /\ vpc = "idle"
    /\ argv = <<>>
    /\ http_requests = 0
    /\ status_code = 0
    /\ card = NoCard
    /\ step_failed = "none"
    /\ exit_status = "running"

NextPoll == PollStep

(* the event loop runs the coroutine until it returns *)
SpecPoll == InitPoll /\ [][NextPoll]_vars /\ WF_vars(NextPoll)

----------------------------------------------------------------------------
(* The interactive session: run_interactive and what it calls *)

pollLocals == <<max_polls, poll_count, messages_received, last_agent_message,
                task, hist_n, queries, poll_outcome, max_report>>

(* lines 215-223: the Message send_message builds *)
BuildMessage(ct) == [task_id |-> IF ct # NoTask THEN ct.id ELSE NoId]

(* line 285: if self.current_task and message_count == 0 *)
StartsPolling(ct, mcount) == ct # NoTask /\ mcount = 0

(* mutant: the except branch does not clear the task *)
EndConversation_KeepOnError(ct, ok) ==
    IF ct = NoTask THEN ct
    ELSE IF ok THEN NoTask
    ELSE ct

(* lines 296-323: current_task after end_conversation; ok says whether the
   status update call succeeded *)
EndConversation(ct, ok) ==
    IF ct = NoTask THEN ct
    ELSE IF ok THEN NoTask
    ELSE NoTask

(* line 348: /new *)
NewConversation(ct) == NoTask

(* lines 344-346, 356-358: /quit, or end of input *)
CmdQuit ==
    /\ pc = "prompt"
    /\ pc' = "quit"
    /\ UNCHANGED <<caller, current_task, recv>>
    /\ UNCHANGED sendLocals
    /\ UNCHANGED pollLocals
    /\ UNCHANGED <<connectVars, validatorVars>>

(* lines 347-349 *)
CmdNew ==
    /\ pc = "prompt"
    /\ current_task' = NewConversation(current_task)
    /\ recv' = NoId
    /\ UNCHANGED <<pc, caller>>
    /\ UNCHANGED sendLocals
    /\ UNCHANGED pollLocals
    /\ UNCHANGED <<connectVars, validatorVars>>

(* lines 350-352 and 296-323 *)
CmdEnd ==
    /\ pc = "prompt"
    /\ \E ok \in BOOLEAN : current_task' = EndConversation(current_task, ok)
    /\ recv' = NoId
    /\ UNCHANGED <<pc, caller>>
    /\ UNCHANGED sendLocals
    /\ UNCHANGED pollLocals
    /\ UNCHANGED <<connectVars, validatorVars>>

(* lines 353-354 and 209-231: any other input is sent to the agent *)
SendMessage ==
    /\ pc = "prompt"
    /\ message' = BuildMessage(current_task)
    /\ response_count' = 0
    /\ message_count' = 0
    /\ got_task_update' = FALSE
    /\ pc' = "stream"
    /\ UNCHANGED <<caller, current_task, recv>>
    /\ UNCHANGED pollLocals
    /\ UNCHANGED <<connectVars, validatorVars>>

(* lines 234-256: the stream delivers a (task, event) tuple *)
StreamTask ==
    /\ pc = "stream"
    /\ response_count < MaxResponses
    /\ \E t \in Tasks :
         /\ current_task' = t
         /\ recv' = t.id
    /\ response_count' = response_count + 1
    /\ got_task_update' = TRUE
    /\ UNCHANGED <<pc, caller, message, message_count>>
    /\ UNCHANGED pollLocals
    /\ UNCHANGED <<connectVars, validatorVars>>

(* lines 258-274: the stream delivers a Message *)
StreamMessage ==
    /\ pc = "stream"
    /\ response_count < MaxResponses
    /\ message_count' = message_count + 1
    /\ response_count' = response_count + 1
    /\ UNCHANGED <<pc, caller, current_task, message, got_task_update, recv>>
    /\ UNCHANGED pollLocals
    /\ UNCHANGED <<connectVars, validatorVars>>

(* lines 275-277: the stream delivers something else *)
StreamUnknown ==
    /\ pc = "stream"
    /\ response_count < MaxResponses
    /\ response_count' = response_count + 1
    /\ UNCHANGED <<pc, caller, current_task, message, message_count,
                   got_task_update, recv>>
    /\ UNCHANGED pollLocals
    /\ UNCHANGED <<connectVars, validatorVars>>

(* lines 291-294: the stream raises; send_message prints and returns *)
StreamRaise ==
    /\ pc = "stream"
    /\ pc' = "prompt"
    /\ response_count' = 0
    /\ message_count' = 0
    /\ got_task_update' = FALSE
    /\ UNCHANGED <<caller, current_task, message, recv>>
    /\ UNCHANGED pollLocals
    /\ UNCHANGED <<connectVars, validatorVars>>

(* lines 279-289: the stream is exhausted *)
StreamEnd ==
    /\ pc = "stream"
    /\ IF StartsPolling(current_task, message_count)
       THEN /\ pc' = "call_poll"
            /\ caller' = "send_message"
            /\ max_polls' = DefaultMaxPolls
       ELSE /\ pc' = "prompt"
            /\ UNCHANGED <<caller, max_polls>>
    /\ response_count' = 0
    /\ message_count' = 0
    /\ got_task_update' = FALSE
    /\ UNCHANGED <<current_task, message, recv, poll_count, messages_received,
                   last_agent_message, task, hist_n, queries, poll_outcome,
                   max_report>>
    /\ UNCHANGED <<connectVars, validatorVars>>

(* after a successful connect: __init__ lines 28-32 *)
Init ==
    /\ pc = "prompt"
    /\ caller = "send_message"
    /\ current_task = NoTask
    /\ message = [task_id |-> NoId]
    /\ response_count = 0
    /\ message_count = 0
    /\ got_task_update = FALSE
    /\ max_polls = DefaultMaxPolls
    /\ poll_count = 0
    /\ messages_received = <<>>
    /\ last_agent_message = NoMsg
    /\ task = NoTask
    /\ hist_n = 0
    /\ queries = 0
    /\ poll_outcome = "none"
    /\ max_report = "none"
    /\ recv = NoId
    /\ cpc = "idle"
    /\ agent_url = <<>>
    /\ card_urls = <<>>
    /\ requested = <<>>
    /\ answers = <<>>
    /\ agent_card_data = "none"
    /\ client = "created"
    /\ connected = "yes"
    /\ vpc = "idle"
    /\ argv = <<>>
    /\ http_requests = 0
    /\ status_code = 0
    /\ card = NoCard
    /\ step_failed = "none"
    /\ exit_status = "running"

Next ==
    \/ CmdQuit \/ CmdNew \/ CmdEnd \/ SendMessage
    \/ StreamTask \/ StreamMessage \/ StreamUnknown \/ StreamRaise \/ StreamEnd
    \/ PollEnter \/ PollError \/ PollFetch \/ HistoryItem \/ StopCheck \/ AfterLoop

Spec == Init /\ [][Next]_vars

----------------------------------------------------------------------------
(* Properties of poll_for_updates and of the session *)

StopNames == {"input_required", "completed", "failed", "canceled"}

(* C1: poll_for_updates always returns, whatever the server answers
   (errors, tasks that never reach a stop state); it issues at most
   max_polls get_task queries; with no current task it returns without
   issuing any query. *)
C1_PollTerminates ==
    /\ <>(pc = "returned")
    /\ [](queries <= max_polls /\ poll_count <= max_polls)
    /\ [](current_task = NoTask => queries = 0 /\ pc \in {"call_poll", "returned"})

(* a round that used every poll on errors and never-stopping tasks *)
C1_Witness ==
    /\ pc = "returned"
    /\ max_polls = MaxPollsArg
    /\ queries = max_polls
    /\ poll_outcome # "stopped"

(* C2: the poll that fetches a task in input_required, completed, failed or
   canceled sets current_task to that task and leaves the loop, after which
   the round issues no query; after any other state the loop goes back to
   its head, where a remaining poll is the only step. *)
C2_StopIsLast ==
    [][ /\ (pc = "history" /\ pc' # "history") =>
             IF task.state \in StopNames
             THEN pc' = "poll_exit" /\ current_task' = task
             ELSE pc' = "poll_head" /\ current_task' = current_task
        /\ (pc = "poll_exit") => (queries' = queries /\ pc' \in {"prompt", "returned"})
        /\ (pc = "poll_head" /\ poll_count < max_polls) => queries' = queries + 1
      ]_vars

(* the second poll of a round stopped on canceled, with polls remaining *)
C2_Witness ==
    /\ pc = "poll_exit"
    /\ queries = 2
    /\ poll_count < max_polls
    /\ current_task.state = "canceled"

(* C3: messages_received never holds an identifier twice, and
   last_agent_message is only ever replaced by a message whose identifier
   was not yet in messages_received. *)
C3_Dedup ==
    [][ /\ Cardinality(Range(messages_received')) = Len(messages_received')
        /\ (last_agent_message' # last_agent_message /\ last_agent_message' # NoMsg)
             => /\ last_agent_message'.message_id \notin Range(messages_received)
                /\ last_agent_message'.message_id \in Range(messages_received')
      ]_vars

(* two history items were read and only one identifier is known: an
   identifier arrived again and was dropped *)
C3_Witness ==
    /\ pc = "history"
    /\ hist_n = 2
    /\ Len(messages_received) = 1
    /\ last_agent_message # NoMsg

(* C4: a poll that raises leaves current_task alone, is counted in
   poll_count, and goes back to the loop head, where the next poll is the
   only step while polls remain. *)
C4_ErrorCaught ==
    [][ /\ (queries' = queries + 1 /\ poll_outcome' = "error")
             => /\ current_task' = current_task
                /\ poll_count' = poll_count + 1
                /\ pc' = "poll_head"
        /\ (pc = "poll_head" /\ poll_outcome = "error" /\ poll_count < max_polls)
             => (pc' # PollReturn /\ queries' = queries + 1)
      ]_vars

(* the second poll failed and polls remain *)
C4_Witness ==
    /\ pc = "poll_head"
    /\ poll_outcome = "error"
    /\ poll_count = 2
    /\ poll_count < max_polls

(* C5: the message send_message builds carries the id of the task most
   recently received since the last /new or /end (none when none was
   received), and a command that stays at the prompt (/new, /end with
   either outcome) leaves no current task. *)
C5_TaskIdCarried ==
    [][ /\ (pc = "prompt" /\ pc' = "stream") => message'.task_id = recv
        /\ (pc = "prompt" /\ pc' = "prompt") => current_task' = NoTask
      ]_vars

(* a message sent after a round that stopped carries a task id *)
C5_Witness ==
    /\ pc = "stream"
    /\ response_count = 0
    /\ poll_outcome = "stopped"
    /\ message.task_id = "t2"

(* C8: when the stream of a send is exhausted, manual polling starts
   exactly when that stream delivered a task update and no Message. *)
C8_PollsOnlyAfterTaskUpdate ==
    [][ StreamEnd => ((pc' = "call_poll") <=> (got_task_update /\ message_count = 0)) ]_vars

(* C9: a finished round printed 'Reached max polls' exactly when it did not
   stop on a stop state. *)
C9_MaxReportOnlyWhenExhausted ==
    max_report # "none" => ((max_report = "printed") <=> (poll_outcome # "stopped"))

----------------------------------------------------------------------------
(* SimpleA2AClient.connect *)

MaxCandidates == 3   \* _get_agent_card_urls appends at most three URLs

(* what one GET of a candidate URL can come to: the request raises, or
   answers with a status and a body *)
Answers == {"raise", "404", "500", "200_notjson", "200_empty", "200_card",
            "200_badcard"}

StatusCode(ans) ==
    CASE ans = "404" -> 404
      [] ans = "500" -> 500
      [] ans \in {"200_notjson", "200_empty", "200_card", "200_badcard"} -> 200
      [] OTHER -> 0

(* mutant: the direct .well-known URL is not appended *)
GetAgentCardUrls_NoDirect(url) ==
    (IF Contains(url, S_a2a) THEN <<Replace(url, S_a2a, S_wellKnown)>> ELSE <<>>)
    \o (IF Contains(url, S_localhost3003)
        THEN <<Replace(Replace(url, S_apiRooms, S_rooms), S_a2a, S_agentCard)>>
        ELSE <<>>)

(* lines 34-49 *)
GetAgentCardUrls(url) ==
    (IF Contains(url, S_a2a) THEN <<Replace(url, S_a2a, S_wellKnown)>> ELSE <<>>)
    \o (IF Contains(url, S_localhost3003)
        THEN <<Replace(Replace(url, S_apiRooms, S_rooms), S_a2a, S_agentCard)>>
        ELSE <<>>)
    \o <<url \o S_wellKnown>>

(* lines 66-72: what the loop body makes of an answer: "next" (continue, or
   fall through to the next iteration) or the data it breaks with.
   response.json() raises on a body that is not JSON, inside the try. *)
CandidateResult(ans) ==
    IF ans = "raise" THEN "next"
    ELSE IF StatusCode(ans) = 200
         THEN IF ans = "200_notjson" THEN "next"
              ELSE IF ans = "200_empty" THEN "empty"
              ELSE IF ans = "200_card" THEN "card"
              ELSE "badcard"
         ELSE "next"

connectUnchanged == <<clientVars, validatorVars>>

(* lines 55-61 *)
ConnectStart ==
    /\ cpc = "start"
    /\ card_urls' = GetAgentCardUrls(agent_url)
    /\ cpc' = "loop"
    /\ UNCHANGED <<agent_url, requested, answers, agent_card_data, client, connected>>
    /\ UNCHANGED connectUnchanged

(* lines 63-72: one iteration of the for loop *)
TryCandidate ==
    /\ cpc = "loop"
    /\ Len(requested) < Len(card_urls)
    /\ \E ans \in Answers :
         /\ requested' = Append(requested, card_urls[Len(requested) + 1])
         /\ answers' = Append(answers, ans)
         /\ IF CandidateResult(ans) = "next"
            THEN UNCHANGED <<cpc, agent_card_data>>
            ELSE /\ agent_card_data' = CandidateResult(ans)
                 /\ cpc' = "after_loop"
    /\ UNCHANGED <<agent_url, card_urls, client, connected>>
    /\ UNCHANGED connectUnchanged

(* the for loop ran out of candidates *)
CandidatesExhausted ==
    /\ cpc = "loop"
    /\ Len(requested) = Len(card_urls)
    /\ cpc' = "after_loop"
    /\ UNCHANGED <<agent_url, card_urls, requested, answers, agent_card_data,
                   client, connected>>
    /\ UNCHANGED connectUnchanged

(* lines 74-109: no data (or falsy data): return False; a card that fails
   validation, or a factory that raises: the except clause returns False;
   otherwise the SDK client is created *)
ConnectFinish ==
    /\ cpc = "after_loop"
    /\ \E factory_ok \in BOOLEAN :
         IF agent_card_data \in {"none", "empty"}
         THEN connected' = "no" /\ UNCHANGED client
         ELSE IF agent_card_data = "badcard" \/ ~factory_ok
              THEN connected' = "no" /\ UNCHANGED client
              ELSE connected' = "yes" /\ client' = "created"
    /\ cpc' = "done"
    /\ UNCHANGED <<agent_url, card_urls, requested, answers, agent_card_data>>
    /\ UNCHANGED connectUnchanged

InitConnect ==
    /\ cpc = "start"
    /\ agent_url \in AgentUrls
    /\ card_urls = <<>>
    /\ requested = <<>>
    /\ answers = <<>>
    /\ agent_card_data = "none"
    /\ client = "none"
    /\ connected = "pending"
    /\ pc = "not_started"
    /\ caller = "send_message"
    /\ current_task = NoTask
    /\ message = [task_id |-> NoId]
    /\ response_count = 0
    /\ message_count = 0
    /\ got_task_update = FALSE
    /\ max_polls = DefaultMaxPolls
    /\ poll_count = 0
    /\ messages_received = <<>>
    /\ last_agent_message = NoMsg
    /\ task = NoTask
    /\ hist_n = 0
    /\ queries = 0
    /\ poll_outcome = "none"
    /\ max_report = "none"
    /\ recv = NoId
    /\ vpc = "idle"
    /\ argv = <<>>
    /\ http_requests = 0
    /\ status_code = 0
    /\ card = NoCard
    /\ step_failed = "none"
    /\ exit_status = "running"

NextConnect == ConnectStart \/ TryCandidate \/ CandidatesExhausted \/ ConnectFinish

SpecConnect == InitConnect /\ [][NextConnect]_vars

(* C7 as stated: the candidates are requested in the listed order, the list
   is not empty and ends with agent_url + '/.well-known/agent-card.json',
   no candidate is requested after one that answered 200, and connect
   returns False without an SDK client when no candidate yielded a card. *)
Is200(ans) == ans \in {"200_notjson", "200_empty", "200_card", "200_badcard"}

C7_FirstOkCandidateEndsSearch ==
    /\ cpc # "start" =>
         /\ Len(card_urls) >= 1
         /\ card_urls[Len(card_urls)] = agent_url \o S_wellKnown
    /\ requested = SubSeq(card_urls, 1, Len(requested))
    /\ \A i \in 1..(Len(answers) - 1) : ~Is200(answers[i])
    /\ (cpc = "done" /\ agent_card_data \in {"none", "empty"})
         => (connected = "no" /\ client = "none")

(* C7 amended: a candidate that answers 200 with a body that is not JSON
   is skipped like one that raises; the search ends at the first candidate
   that answers 200 with a JSON body. *)
IsJson200(ans) == ans \in {"200_empty", "200_card", "200_badcard"}

C7_FirstJsonCandidateEndsSearch ==
    /\ cpc # "start" =>
         /\ Len(card_urls) \in 1..MaxCandidates
         /\ card_urls[Len(card_urls)] = agent_url \o S_wellKnown
    /\ Len(requested) = Len(answers)
    /\ requested = SubSeq(card_urls, 1, Len(requested))
    /\ \A i \in 1..(Len(answers) - 1) : ~IsJson200(answers[i])
    /\ (cpc \in {"after_loop", "done"} /\ Len(requested) < Len(card_urls))
         => IsJson200(answers[Len(answers)])
    /\ (cpc \in {"after_loop", "done"} /\ answers # <<>> /\ IsJson200(answers[Len(answers)]))
         => agent_card_data # "none"
    /\ (cpc = "done" /\ agent_card_data \in {"none", "empty"})
         => (connected = "no" /\ client = "none")

(* the second of three candidates answered 200 with a card after the first
   answered 200 with a body that is not JSON; the third was not requested *)
C7_Witness ==
    /\ cpc = "done"
    /\ Len(card_urls) = 3
    /\ answers = <<"200_notjson", "200_card">>
    /\ connected = "yes"

----------------------------------------------------------------------------
(* validate_a2a_card.py *)

MaxExtensions == 2   \* entries of capabilities.extensions in a fetched card

(* HTTP status codes the server answers with *)
StatusCodes == {200, 204, 404, 500}

(* what requests.get(url, timeout=10) can come to without a response *)
RequestErrors == {"timeout", "connection_error", "other_request_error"}

(* AgentExtension.description is optional in the A2A schema: a card that
   passes validation gives each extension a description or none *)
ExtDescriptions ==
    UNION {[1..n -> {"text", "absent"}] : n \in 0..MaxExtensions}

(* a JSON body: whether AgentCard.model_validate accepts it, and the
   descriptions of its extensions when it does *)
Cards == {[schema_valid |-> FALSE, ext_descriptions |-> <<>>]}
         \cup [schema_valid : {TRUE}, ext_descriptions : ExtDescriptions]

(* line 146: url.startswith(('http://', 'https://')) *)
UrlFormatOk(url) == StartsWith(url, S_http) \/ StartsWith(url, S_https)

(* line 26: response.raise_for_status() raises HTTPError on 4xx and 5xx *)
RaisesForStatus(code) == 400 <= code /\ code < 600

(* lines 61-66: ext.description[:60] raises TypeError on a description
   that is None; the other fields printed are required by the schema *)
PrintRaises(c) ==
    \E i \in 1..Len(c.ext_descriptions) : c.ext_descriptions[i] = "absent"

validatorUnchanged == <<clientVars, connectVars>>

(* lines 137-151: main, up to the call of validate_agent_card_from_url *)
VMain ==
    /\ vpc = "main"
    /\ IF Len(argv) # 2
       THEN /\ step_failed' = "arguments"
            /\ exit_status' = 1
            /\ vpc' = "exited"
       ELSE IF ~UrlFormatOk(argv[2])
            THEN /\ step_failed' = "url_format"
                 /\ exit_status' = 1
                 /\ vpc' = "exited"
            ELSE /\ vpc' = "fetch"
                 /\ UNCHANGED <<step_failed, exit_status>>
    /\ UNCHANGED <<argv, http_requests, status_code, card>>
    /\ UNCHANGED validatorUnchanged

(* lines 25 and 114-120, 130-134: the request raises *)
VFetchRaises ==
    /\ vpc = "fetch"
    /\ http_requests' = http_requests + 1
    /\ \E e \in RequestErrors : step_failed' = e
    /\ exit_status' = 1
    /\ vpc' = "exited"
    /\ UNCHANGED <<argv, status_code, card>>
    /\ UNCHANGED validatorUnchanged

(* lines 25-27 and 121-129: the request is answered *)
VFetchAnswered ==
    /\ vpc = "fetch"
    /\ http_requests' = http_requests + 1
    /\ \E code \in StatusCodes, is_json \in BOOLEAN, c \in Cards :
         /\ status_code' = code
         /\ IF RaisesForStatus(code)
            THEN /\ step_failed' = "http_error"
                 /\ exit_status' = 1
                 /\ vpc' = "exited"
                 /\ UNCHANGED card
            ELSE IF ~is_json
                 THEN /\ step_failed' = "invalid_json"
                      /\ exit_status' = 1
                      /\ vpc' = "exited"
                      /\ UNCHANGED card
                 ELSE /\ card' = c
                      /\ vpc' = "validate"
                      /\ UNCHANGED <<step_failed, exit_status>>
    /\ UNCHANGED argv
    /\ UNCHANGED validatorUnchanged

(* lines 34-37 and 95-112: AgentCard.model_validate *)
VValidate ==
    /\ vpc = "validate"
    /\ IF card.schema_valid
       THEN /\ vpc' = "print"
            /\ UNCHANGED <<step_failed, exit_status>>
       ELSE /\ step_failed' = "schema"
            /\ exit_status' = 1
            /\ vpc' = "exited"
    /\ UNCHANGED <<argv, http_requests, status_code, card>>
    /\ UNCHANGED validatorUnchanged

(* lines 37-93 and 130-134: the details are printed after VALIDATION
   PASSED; an exception raised there reaches except Exception, which
   exits with status 1; otherwise main returns and the status is 0 *)
VPrint ==
    /\ vpc = "print"
    /\ exit_status' = IF PrintRaises(card) THEN 1 ELSE 0
    /\ vpc' = "exited"
    /\ UNCHANGED <<argv, http_requests, status_code, card, step_failed>>
    /\ UNCHANGED validatorUnchanged

InitValidator ==
    /\ vpc = "main"
    /\ argv \in {<<A_prog>>}
                \cup {<<A_prog, u>> : u \in UrlArgs}
                \cup {<<A_prog, u, A_http>> : u \in UrlArgs}
    /\ http_requests = 0
    /\ status_code = 0
    /\ card = NoCard
    /\ step_failed = "none"
    /\ exit_status = "running"
    /\ cpc = "idle"
    /\ agent_url = <<>>
    /\ card_urls = <<>>
    /\ requested = <<>>
    /\ answers = <<>>
    /\ agent_card_data = "none"
    /\ client = "none"
    /\ connected = "pending"
    /\ pc = "not_started"
    /\ caller = "send_message"
    /\ current_task = NoTask
    /\ message = [task_id |-> NoId]
    /\ response_count = 0
    /\ message_count = 0
    /\ got_task_update = FALSE
    /\ max_polls = DefaultMaxPolls
    /\ poll_count = 0
    /\ messages_received = <<>>
    /\ last_agent_message = NoMsg
    /\ task = NoTask
    /\ hist_n = 0
    /\ queries = 0
    /\ poll_outcome = "none"
    /\ max_report = "none"
    /\ recv = NoId

NextValidator == VMain \/ VFetchRaises \/ VFetchAnswered \/ VValidate \/ VPrint

SpecValidator == InitValidator /\ [][NextValidator]_vars

(* C6: the validator exits with status 1 exactly when a step failed
   (argument count, URL format, timeout, connection error, HTTP error
   status, invalid JSON, schema validation) and with status 0 whenever the
   card was fetched and passed schema validation; a URL that starts with
   neither http:// nor https:// causes no HTTP request. *)
C6_ExitStatus ==
    /\ vpc = "exited" =>
         /\ (exit_status = 1) <=> (step_failed # "none")
         /\ (card # NoCard /\ card.schema_valid) => exit_status = 0
    /\ (Len(argv) = 2 /\ ~(StartsWith(argv[2], S_http) \/ StartsWith(argv[2], S_https)))
         => http_requests = 0

====
